---------------------------- MODULE Spec2Model ----------------------------
(***************************************************************************)
(* playAudio (stdlib/public/runtime/playAudio.cpp): an extern "C" entry    *)
(* point that prints what it is about to play, checks that the path        *)
(* exists, dlopen()s the backing library, dlsym()s av_playAudio, calls it  *)
(* with the caller's path and dlclose()s the handle.                       *)
(*                                                                         *)
(* The model runs the function on two host threads.  Every step that       *)
(* touches something shared (one operator<< on std::cout, the filesystem   *)
(* query, one call into the runtime loader, the backing function) is one   *)
(* action, named after the source line it models; tests of locals are      *)
(* folded into the step that produced the local.  The filesystem and the   *)
(* loader are the environment: files come and go, dlopen and dlsym fail    *)
(* or succeed, the filesystem query may fail with an OS error.             *)
(***************************************************************************)
EXTENDS Naturals, Sequences, FiniteSets

Threads == {1, 2}

\* Text is a sequence of pieces: a literal of the source is one piece, a
\* path is one piece per byte.
AttemptingLit == <<"Attempting to play: ">>
ExistsLit     == <<"File exists">>
NotExistLit   == <<"File does not exist">>
LoadFailLit   == <<"Unable to load dylib: ">>
SymFailLit    == <<"Unable to find symbol: ">>
NL            == <<"\n">>

\* What dlerror() describes after a failed dlopen / dlsym.
DlopenMsg == <<"image not found">>
DlsymMsg  == <<"symbol not found">>
NoMsg     == <<>>

\* The caller's inputs: a relative path, the same entry spelled with a
\* leading "./" (which the OS resolves to the same entry), and another entry.
Paths == {<<"a">>, <<".", "/", "a">>, <<"b">>}

\* Path resolution as the OS does it for these inputs: "." components are
\* skipped.
RECURSIVE Resolve(_)
Resolve(p) ==
    IF Len(p) >= 2 /\ p[1] = "." /\ p[2] = "/"
    THEN Resolve(SubSeq(p, 3, Len(p)))
    ELSE p

Entries == {Resolve(p) : p \in Paths}

NULL      == "NULL"
LibHandle == "OSPort.dylib"
PlaySym   == "av_playAudio"

VARIABLES
    pc,        \* per thread: where it is in playAudio ("idle": in the caller)
    filePath,  \* per thread: the argument of the running invocation
    handle,    \* per thread: the local `handle`
    func,      \* per thread: the local `playAudioFunc`
    errbuf,    \* per thread: the loader's thread-local dlerror() state
    fs,        \* the entries the filesystem holds
    refcnt,    \* the loader's reference count of the backing library
    image,     \* the loaded image: "none", "nosym" or "good"
    cout,      \* pieces written to std::cout since the last end of line
    frags,     \* per thread: what this invocation wrote, in order (history)
    ops,       \* per thread: filesystem/loader/backing operations (history)
    present    \* per thread: what the filesystem held at the check (history)

vars == <<pc, filePath, handle, func, errbuf, fs, refcnt, image, cout,
          frags, ops, present>>

Op(o, r, a) == [op |-> o, res |-> r, arg |-> a]

----------------------------------------------------------------------------
\* Pure helpers over the histories.

RECURSIVE CountOp(_, _)
CountOp(s, o) ==
    IF s = <<>> THEN 0
    ELSE (IF s[1].op = o THEN 1 ELSE 0) + CountOp(Tail(s), o)

RECURSIVE CountRes(_, _, _)
CountRes(s, o, r) ==
    IF s = <<>> THEN 0
    ELSE (IF s[1].op = o /\ s[1].res = r THEN 1 ELSE 0)
         + CountRes(Tail(s), o, r)

\* The complete lines of a sequence of written fragments: the text between
\* consecutive ends of line; `cur` is the line being built.
RECURSIVE LinesFrom(_, _)
LinesFrom(fr, cur) ==
    IF fr = <<>> THEN <<>>
    ELSE IF fr[1] = NL THEN <<cur>> \o LinesFrom(Tail(fr), <<>>)
    ELSE LinesFrom(Tail(fr), cur \o fr[1])

Lines(fr) == LinesFrom(fr, <<>>)

\* The text after the last end of line.
RECURSIVE PartialFrom(_, _)
PartialFrom(fr, cur) ==
    IF fr = <<>> THEN cur
    ELSE IF fr[1] = NL THEN PartialFrom(Tail(fr), <<>>)
    ELSE PartialFrom(Tail(fr), cur \o fr[1])

Partial(fr) == PartialFrom(fr, <<>>)

----------------------------------------------------------------------------
\* std::cout.  One operator<< is one step; concurrent writers interleave
\* between steps.

Emit(t, text) ==
    /\ cout' = Append(cout, [w |-> t, s |-> text])
    /\ frags' = [frags EXCEPT ![t] = Append(@, text)]

EmitEndl(t) ==
    /\ cout' = <<>>
    /\ frags' = [frags EXCEPT ![t] = Append(@, NL)]

Goto(t, l) == pc' = [pc EXCEPT ![t] = l]

Init ==
    /\ pc = [t \in Threads |-> "idle"]
    /\ filePath = [t \in Threads |-> <<>>]
    /\ handle = [t \in Threads |-> NULL]
    /\ func = [t \in Threads |-> NULL]
    /\ errbuf = [t \in Threads |-> NoMsg]
    /\ fs \in SUBSET Entries
    /\ refcnt = 0
    /\ image = "none"
    /\ cout = <<>>
    /\ frags = [t \in Threads |-> <<>>]
    /\ ops = [t \in Threads |-> <<>>]
    /\ present = [t \in Threads |-> "unchecked"]

----------------------------------------------------------------------------
\* The environment.

\* Another process creates or removes an entry.
TouchFile(e) ==
    /\ fs' = IF e \in fs THEN fs \ {e} ELSE fs \cup {e}
    /\ UNCHANGED <<pc, filePath, handle, func, errbuf, refcnt, image, cout,
                   frags, ops, present>>

\* The host calls playAudio(p) on thread t.
Call(t, p) ==
    /\ pc[t] \in {"idle", "returned", "threw"}
    /\ Goto(t, "L7a")
    /\ filePath' = [filePath EXCEPT ![t] = p]
    /\ handle' = [handle EXCEPT ![t] = NULL]
    /\ func' = [func EXCEPT ![t] = NULL]
    /\ frags' = [frags EXCEPT ![t] = <<>>]
    /\ ops' = [ops EXCEPT ![t] = <<>>]
    /\ present' = [present EXCEPT ![t] = "unchecked"]
    /\ UNCHANGED <<errbuf, fs, refcnt, image, cout>>

----------------------------------------------------------------------------
\* playAudio, line by line.

\* Faulty variant of L7b: prints the normalised spelling of the path.
L7b_Normalized(t) ==
    /\ pc[t] = "L7b"
    /\ Emit(t, Resolve(filePath[t]))
    /\ Goto(t, "L7c")
    /\ UNCHANGED <<filePath, handle, func, errbuf, fs, refcnt, image, ops,
                   present>>

\* Faulty variant of L7c: the end of line is missing.
L7c_NoEndl(t) ==
    /\ pc[t] = "L7c"
    /\ Goto(t, "L10")
    /\ UNCHANGED <<filePath, handle, func, errbuf, fs, refcnt, image, cout,
                   frags, ops, present>>

\* Line 7: std::cout << "Attempting to play: " << filePath << std::endl;
L7a(t) ==
    /\ pc[t] = "L7a"
    /\ Emit(t, AttemptingLit)
    /\ Goto(t, "L7b")
    /\ UNCHANGED <<filePath, handle, func, errbuf, fs, refcnt, image, ops,
                   present>>

L7b(t) ==
    /\ pc[t] = "L7b"
    /\ Emit(t, filePath[t])
    /\ Goto(t, "L7c")
    /\ UNCHANGED <<filePath, handle, func, errbuf, fs, refcnt, image, ops,
                   present>>

L7c(t) ==
    /\ pc[t] = "L7c"
    /\ EmitEndl(t)
    /\ Goto(t, "L10")
    /\ UNCHANGED <<filePath, handle, func, errbuf, fs, refcnt, image, ops,
                   present>>

\* Lines 8-10: std::filesystem::path file{filePath};
\*             if (std::filesystem::exists(file))
\* exists(const path&) is the throwing overload: when the status cannot be
\* determined (EACCES, ENAMETOOLONG, ELOOP, EIO ...) it throws
\* filesystem_error, which leaves playAudio through its extern "C" frame.
L10(t) ==
    /\ pc[t] = "L10"
    /\ \E oserr \in BOOLEAN :
         LET there == Resolve(filePath[t]) \in fs
             res == IF oserr THEN "error"
                    ELSE IF there THEN "true" ELSE "false"
         IN /\ ops' = [ops EXCEPT ![t] = Append(@, Op("exists", res, filePath[t]))]
            /\ present' = [present EXCEPT ![t] =
                              IF there THEN "present" ELSE "absent"]
            /\ Goto(t, IF oserr THEN "threw"
                       ELSE IF there THEN "L11a" ELSE "L13a")
    /\ UNCHANGED <<filePath, handle, func, errbuf, fs, refcnt, image, cout,
                   frags>>

\* Line 11: std::cout << "File exists" << std::endl;
L11a(t) ==
    /\ pc[t] = "L11a"
    /\ Emit(t, ExistsLit)
    /\ Goto(t, "L11b")
    /\ UNCHANGED <<filePath, handle, func, errbuf, fs, refcnt, image, ops,
                   present>>

L11b(t) ==
    /\ pc[t] = "L11b"
    /\ EmitEndl(t)
    /\ Goto(t, "L17")
    /\ UNCHANGED <<filePath, handle, func, errbuf, fs, refcnt, image, ops,
                   present>>

\* Lines 13-14: std::cout << "File does not exist" << std::endl; return;
L13a(t) ==
    /\ pc[t] = "L13a"
    /\ Emit(t, NotExistLit)
    /\ Goto(t, "L13b")
    /\ UNCHANGED <<filePath, handle, func, errbuf, fs, refcnt, image, ops,
                   present>>

L13b(t) ==
    /\ pc[t] = "L13b"
    /\ EmitEndl(t)
    /\ Goto(t, "returned")
    /\ UNCHANGED <<filePath, handle, func, errbuf, fs, refcnt, image, ops,
                   present>>

\* Faulty variant of L17: a handle some invocation already holds open is
\* reused from a cache instead of being opened again.
L17_Cached(t) ==
    /\ pc[t] = "L17"
    /\ \E ok \in BOOLEAN, img \in {"nosym", "good"} :
         IF refcnt > 0
         THEN /\ handle' = [handle EXCEPT ![t] = LibHandle]
              /\ Goto(t, "L23")
              /\ UNCHANGED <<refcnt, image, ops, errbuf>>
         ELSE IF ok
         THEN /\ handle' = [handle EXCEPT ![t] = LibHandle]
              /\ refcnt' = refcnt + 1
              /\ image' = img
              /\ ops' = [ops EXCEPT ![t] = Append(@, Op("dlopen", LibHandle, <<>>))]
              /\ Goto(t, "L23")
              /\ UNCHANGED errbuf
         ELSE /\ handle' = [handle EXCEPT ![t] = NULL]
              /\ errbuf' = [errbuf EXCEPT ![t] = DlopenMsg]
              /\ ops' = [ops EXCEPT ![t] = Append(@, Op("dlopen", NULL, <<>>))]
              /\ Goto(t, "L19a")
              /\ UNCHANGED <<refcnt, image>>
    /\ UNCHANGED <<filePath, func, fs, cout, frags, present>>

\* Line 17: void* handle = dlopen(".../OSPort.dylib", RTLD_LAZY);
\* Line 18: if (!handle)
\* The loader counts references: the first open maps the image (which
\* exports av_playAudio or does not), later opens return the same handle.
\* A failed open leaves its description for this thread's dlerror().
L17(t) ==
    /\ pc[t] = "L17"
    /\ \E ok \in BOOLEAN, img \in {"nosym", "good"} :
         IF ok
         THEN /\ handle' = [handle EXCEPT ![t] = LibHandle]
              /\ refcnt' = refcnt + 1
              /\ image' = IF refcnt = 0 THEN img ELSE image
              /\ ops' = [ops EXCEPT ![t] = Append(@, Op("dlopen", LibHandle, <<>>))]
              /\ Goto(t, "L23")
              /\ UNCHANGED errbuf
         ELSE /\ handle' = [handle EXCEPT ![t] = NULL]
              /\ errbuf' = [errbuf EXCEPT ![t] = DlopenMsg]
              /\ ops' = [ops EXCEPT ![t] = Append(@, Op("dlopen", NULL, <<>>))]
              /\ Goto(t, "L19a")
              /\ UNCHANGED <<refcnt, image>>
    /\ UNCHANGED <<filePath, func, fs, cout, frags, present>>

\* Line 19: std::cout << "Unable to load dylib: " << dlerror() << std::endl;
L19a(t) ==
    /\ pc[t] = "L19a"
    /\ Emit(t, LoadFailLit)
    /\ Goto(t, "L19b")
    /\ UNCHANGED <<filePath, handle, func, errbuf, fs, refcnt, image, ops,
                   present>>

\* dlerror() returns this thread's pending description and clears it.
L19b(t) ==
    /\ pc[t] = "L19b"
    /\ Emit(t, errbuf[t])
    /\ errbuf' = [errbuf EXCEPT ![t] = NoMsg]
    /\ Goto(t, "L19c")
    /\ UNCHANGED <<filePath, handle, func, fs, refcnt, image, ops, present>>

\* Faulty variant of L19c: the load-failure path releases its (null) handle.
L19c_CloseNull(t) ==
    /\ pc[t] = "L19c"
    /\ EmitEndl(t)
    /\ ops' = [ops EXCEPT ![t] = Append(@, Op("dlclose", handle[t], <<>>))]
    /\ Goto(t, "returned")
    /\ UNCHANGED <<filePath, handle, func, errbuf, fs, refcnt, image, present>>

\* Faulty variant of L19c: the `return` after the diagnostic is missing.
L19c_NoReturn(t) ==
    /\ pc[t] = "L19c"
    /\ EmitEndl(t)
    /\ Goto(t, "L23")
    /\ UNCHANGED <<filePath, handle, func, errbuf, fs, refcnt, image, ops,
                   present>>

\* Line 20: return;
L19c(t) ==
    /\ pc[t] = "L19c"
    /\ EmitEndl(t)
    /\ Goto(t, "returned")
    /\ UNCHANGED <<filePath, handle, func, errbuf, fs, refcnt, image, ops,
                   present>>

\* Faulty variant of L23: the result of dlsym is not tested.
L23_NoCheck(t) ==
    /\ pc[t] = "L23"
    /\ IF image = "good"
       THEN /\ func' = [func EXCEPT ![t] = PlaySym]
            /\ ops' = [ops EXCEPT ![t] = Append(@, Op("dlsym", PlaySym, <<>>))]
            /\ UNCHANGED errbuf
       ELSE /\ func' = [func EXCEPT ![t] = NULL]
            /\ errbuf' = [errbuf EXCEPT ![t] = DlsymMsg]
            /\ ops' = [ops EXCEPT ![t] = Append(@, Op("dlsym", NULL, <<>>))]
    /\ Goto(t, "L30")
    /\ UNCHANGED <<filePath, handle, fs, refcnt, image, cout, frags, present>>

\* Line 23: playAudioFunc = (void (*)(const char*))dlsym(handle, "av_playAudio");
\* Line 24: if (!playAudioFunc)
L23(t) ==
    /\ pc[t] = "L23"
    /\ IF image = "good"
       THEN /\ func' = [func EXCEPT ![t] = PlaySym]
            /\ ops' = [ops EXCEPT ![t] = Append(@, Op("dlsym", PlaySym, <<>>))]
            /\ Goto(t, "L30")
            /\ UNCHANGED errbuf
       ELSE /\ func' = [func EXCEPT ![t] = NULL]
            /\ errbuf' = [errbuf EXCEPT ![t] = DlsymMsg]
            /\ ops' = [ops EXCEPT ![t] = Append(@, Op("dlsym", NULL, <<>>))]
            /\ Goto(t, "L25a")
    /\ UNCHANGED <<filePath, handle, fs, refcnt, image, cout, frags, present>>

\* Line 25: std::cout << "Unable to find symbol: " << dlerror() << std::endl;
L25a(t) ==
    /\ pc[t] = "L25a"
    /\ Emit(t, SymFailLit)
    /\ Goto(t, "L25b")
    /\ UNCHANGED <<filePath, handle, func, errbuf, fs, refcnt, image, ops,
                   present>>

L25b(t) ==
    /\ pc[t] = "L25b"
    /\ Emit(t, errbuf[t])
    /\ errbuf' = [errbuf EXCEPT ![t] = NoMsg]
    /\ Goto(t, "L25c")
    /\ UNCHANGED <<filePath, handle, func, fs, refcnt, image, ops, present>>

\* Faulty variant of L25c: after the diagnostic the library is opened again
\* (a retry) instead of being released.
L25c_Retry(t) ==
    /\ pc[t] = "L25c"
    /\ EmitEndl(t)
    /\ Goto(t, "L17")
    /\ UNCHANGED <<filePath, handle, func, errbuf, fs, refcnt, image, ops,
                   present>>

L25c(t) ==
    /\ pc[t] = "L25c"
    /\ EmitEndl(t)
    /\ Goto(t, "L26")
    /\ UNCHANGED <<filePath, handle, func, errbuf, fs, refcnt, image, ops,
                   present>>

\* dlclose(h): drops one reference; the image is unmapped with the last.
\* Closing a handle that is not open is an error the loader reports and
\* that changes nothing.
Dlclose(t, h) ==
    /\ refcnt' = IF h # NULL /\ refcnt > 0 THEN refcnt - 1 ELSE refcnt
    /\ image' = IF refcnt' = 0 THEN "none" ELSE image
    /\ ops' = [ops EXCEPT ![t] = Append(@, Op("dlclose", h, <<>>))]

\* Faulty variant of L26: the symbol-failure path returns without dlclose.
L26_NoClose(t) ==
    /\ pc[t] = "L26"
    /\ Goto(t, "returned")
    /\ UNCHANGED <<filePath, handle, func, errbuf, fs, refcnt, image, cout,
                   frags, ops, present>>

\* Lines 26-27: dlclose(handle); return;
L26(t) ==
    /\ pc[t] = "L26"
    /\ Dlclose(t, handle[t])
    /\ Goto(t, "returned")
    /\ UNCHANGED <<filePath, handle, func, errbuf, fs, cout, frags, present>>

\* Faulty variant of L30: the path is checked again right before the call,
\* and a file that has gone is reported instead of being played.
L30_Recheck(t) ==
    /\ pc[t] = "L30"
    /\ IF Resolve(filePath[t]) \in fs
       THEN /\ ops' = [ops EXCEPT ![t] =
                         Append(@, Op("call", func[t], filePath[t]))]
            /\ Goto(t, "L30in")
       ELSE /\ Goto(t, "L13a")
            /\ UNCHANGED ops
    /\ UNCHANGED <<filePath, handle, func, errbuf, fs, refcnt, image, cout,
                   frags, present>>

\* Faulty variant of L30: the handle is released before the call.
L30_AfterClose(t) ==
    /\ pc[t] = "L30"
    /\ refcnt' = IF refcnt > 0 THEN refcnt - 1 ELSE refcnt
    /\ image' = IF refcnt' = 0 THEN "none" ELSE image
    /\ ops' = [ops EXCEPT ![t] =
                  @ \o <<Op("dlclose", handle[t], <<>>),
                         Op("call", func[t], filePath[t])>>]
    /\ Goto(t, "L30in")
    /\ UNCHANGED <<filePath, handle, func, errbuf, fs, cout, frags, present>>

\* Faulty variant of L30: the backing function is given the normalised
\* spelling of the path instead of the caller's bytes.
L30_Normalized(t) ==
    /\ pc[t] = "L30"
    /\ ops' = [ops EXCEPT ![t] =
                  Append(@, Op("call", func[t], Resolve(filePath[t])))]
    /\ Goto(t, "L30in")
    /\ UNCHANGED <<filePath, handle, func, errbuf, fs, refcnt, image, cout,
                   frags, present>>

\* Line 30: playAudioFunc(filePath);  The backing function is entered with
\* the caller's pointer ...
L30(t) ==
    /\ pc[t] = "L30"
    /\ ops' = [ops EXCEPT ![t] = Append(@, Op("call", func[t], filePath[t]))]
    /\ Goto(t, "L30in")
    /\ UNCHANGED <<filePath, handle, func, errbuf, fs, refcnt, image, cout,
                   frags, present>>

\* ... and, when playback is over, returns.
L30ret(t) ==
    /\ pc[t] = "L30in"
    /\ ops' = [ops EXCEPT ![t] = Append(@, Op("return", func[t], <<>>))]
    /\ Goto(t, "L31")
    /\ UNCHANGED <<filePath, handle, func, errbuf, fs, refcnt, image, cout,
                   frags, present>>

\* Faulty variant of L31: the handle is released twice.
L31_Twice(t) ==
    /\ pc[t] = "L31"
    /\ refcnt' = IF refcnt > 1 THEN refcnt - 2 ELSE 0
    /\ image' = IF refcnt' = 0 THEN "none" ELSE image
    /\ ops' = [ops EXCEPT ![t] =
                  @ \o <<Op("dlclose", handle[t], <<>>),
                         Op("dlclose", handle[t], <<>>)>>]
    /\ Goto(t, "returned")
    /\ UNCHANGED <<filePath, handle, func, errbuf, fs, cout, frags, present>>

\* Lines 31-32: dlclose(handle); }
L31(t) ==
    /\ pc[t] = "L31"
    /\ Dlclose(t, handle[t])
    /\ Goto(t, "returned")
    /\ UNCHANGED <<filePath, handle, func, errbuf, fs, cout, frags, present>>

Next ==
    \/ \E e \in Entries : TouchFile(e)
    \/ \E t \in Threads, p \in Paths : Call(t, p)
    \/ \E t \in Threads : L7a(t)
    \/ \E t \in Threads : L7b(t)
    \/ \E t \in Threads : L7c(t)
    \/ \E t \in Threads : L10(t)
    \/ \E t \in Threads : L11a(t)
    \/ \E t \in Threads : L11b(t)
    \/ \E t \in Threads : L13a(t)
    \/ \E t \in Threads : L13b(t)
    \/ \E t \in Threads : L17(t)
    \/ \E t \in Threads : L19a(t)
    \/ \E t \in Threads : L19b(t)
    \/ \E t \in Threads : L19c(t)
    \/ \E t \in Threads : L23(t)
    \/ \E t \in Threads : L25a(t)
    \/ \E t \in Threads : L25b(t)
    \/ \E t \in Threads : L25c(t)
    \/ \E t \in Threads : L26(t)
    \/ \E t \in Threads : L30(t)
    \/ \E t \in Threads : L30ret(t)
    \/ \E t \in Threads : L31(t)

Spec == Init /\ [][Next]_vars

\* One step of thread t inside playAudio (the backing function's return
\* included).
Step(t) ==
    \/ L7a(t) \/ L7b(t) \/ L7c(t) \/ L10(t)
    \/ L11a(t) \/ L11b(t) \/ L13a(t) \/ L13b(t)
    \/ L17(t) \/ L19a(t) \/ L19b(t) \/ L19c(t)
    \/ L23(t) \/ L25a(t) \/ L25b(t) \/ L25c(t) \/ L26(t)
    \/ L30(t) \/ L30ret(t) \/ L31(t)

\* A thread that is inside playAudio keeps running, and the backing
\* function returns; the host need not call again and the filesystem need
\* not change.
FairSpec == Spec /\ \A t \in Threads : WF_vars(Step(t))

----------------------------------------------------------------------------
\* Vocabulary of the properties.

Returned(t) == pc[t] = "returned"
Ended(t)    == pc[t] \in {"returned", "threw"}
InCaller(t) == pc[t] \in {"idle", "returned", "threw"}

Opens(t)      == CountRes(ops[t], "dlopen", LibHandle)
OpenFails(t)  == CountRes(ops[t], "dlopen", NULL)
SymOks(t)     == CountRes(ops[t], "dlsym", PlaySym)
SymFails(t)   == CountRes(ops[t], "dlsym", NULL)
Closes(t)     == CountOp(ops[t], "dlclose")
BackCalls(t)  == CountOp(ops[t], "call")
LoaderOps(t)  == CountOp(ops[t], "dlopen") + CountOp(ops[t], "dlsym")
                 + CountOp(ops[t], "dlclose")

HasPrefix(line, lit) ==
    Len(line) >= Len(lit) /\ SubSeq(line, 1, Len(lit)) = lit

\* A diagnostic with a non-empty loader message after its prefix.
IsLoaderLine(line, lit) == HasPrefix(line, lit) /\ Len(line) > Len(lit)

AttemptingLine(t) == AttemptingLit \o filePath[t]

IsFailureLine(line) ==
    \/ line = NotExistLit
    \/ HasPrefix(line, LoadFailLit)
    \/ HasPrefix(line, SymFailLit)

RECURSIVE CountLines(_, _)
CountLines(ls, lit) ==
    IF ls = <<>> THEN 0
    ELSE (IF HasPrefix(ls[1], lit) THEN 1 ELSE 0) + CountLines(Tail(ls), lit)

FailureLines(ls) ==
    CountLines(ls, NotExistLit) + CountLines(ls, LoadFailLit)
    + CountLines(ls, SymFailLit)

----------------------------------------------------------------------------
\* C1: in every invocation a handle that dlopen returned non-null is
\* released exactly once: never more closes than successful opens, never
\* two, none while the backing call is pending on the success path, and
\* when the invocation has ended the closes equal the successful opens
\* (one on the symbol-failure path, one after the backing call returned,
\* none when dlopen failed or was never reached).
C1_ReleasedExactlyOnce ==
    \A t \in Threads :
        /\ Closes(t) <= Opens(t)
        /\ Closes(t) <= 1
        /\ pc[t] \in {"L23", "L25a", "L25b", "L25c", "L26", "L30", "L30in", "L31"}
              => Opens(t) = 1 /\ Closes(t) = 0
        /\ Ended(t) => Closes(t) = Opens(t)

\* An invocation whose symbol lookup failed has returned, having opened
\* and closed once.
C1_Witness ==
    \E t \in Threads :
        Returned(t) /\ SymFails(t) = 1 /\ Opens(t) = 1 /\ Closes(t) = 1

\* C2: the resolved function is only ever entered while the handle it was
\* resolved from is open: during the backing call this invocation has not
\* closed its handle, and no call follows a dlclose in an invocation.
C2_CalledOnlyWhileOpen ==
    \A t \in Threads :
        /\ pc[t] = "L30in" =>
              /\ handle[t] = LibHandle
              /\ func[t] = PlaySym
              /\ Opens(t) = 1
              /\ Closes(t) = 0
        /\ \A i, j \in 1..Len(ops[t]) :
              (ops[t][i].op = "dlclose" /\ ops[t][j].op = "call") => j < i

\* The backing function was called and the handle closed afterwards.
C2_Witness ==
    \E t \in Threads : Returned(t) /\ BackCalls(t) = 1 /\ Closes(t) = 1

\* C3 (as stated): if the path names no existing entry when it is checked,
\* the invocation performs no loader operation and no backing call, and
\* ends by returning after exactly the lines "Attempting to play: <path>"
\* and "File does not exist".
C3_MissingFileReported ==
    \A t \in Threads :
        present[t] = "absent" =>
            /\ LoaderOps(t) = 0
            /\ BackCalls(t) = 0
            /\ Ended(t) =>
                  /\ Returned(t)
                  /\ Lines(frags[t]) = <<AttemptingLine(t), NotExistLit>>

\* C4: if the path exists but dlopen fails, no dlsym and no backing call is
\* made, and the invocation returns after "File exists" followed by an
\* "Unable to load dylib: " line that carries a non-empty loader message.
C4_LoadFailureStops ==
    \A t \in Threads :
        OpenFails(t) > 0 =>
            /\ present[t] = "present"
            /\ CountOp(ops[t], "dlsym") = 0
            /\ BackCalls(t) = 0
            /\ Closes(t) = 0
            /\ ~ (pc[t] = "threw")
            /\ Returned(t) =>
                  LET ls == Lines(frags[t])
                  IN /\ Len(ls) = 3
                     /\ ls[2] = ExistsLit
                     /\ IsLoaderLine(ls[3], LoadFailLit)

\* An invocation returned after a failed dlopen.
C4_Witness ==
    \E t \in Threads : Returned(t) /\ OpenFails(t) = 1

C6_CalledOnceWithCallerPath ==
    \A t \in Threads :
        /\ BackCalls(t) <= 1
        /\ \A i \in 1..Len(ops[t]) :
              ops[t][i].op = "call" =>
                  /\ ops[t][i].arg = filePath[t]
                  /\ ops[t][i].res = PlaySym
        /\ (Returned(t) /\ SymOks(t) = 1) => BackCalls(t) = 1
        /\ BackCalls(t) = 1 => SymOks(t) = 1 /\ Opens(t) = 1

\* The success path ran to its end for a path that is not in normal form.
C6_Witness ==
    \E t \in Threads :
        /\ Returned(t)
        /\ BackCalls(t) = 1
        /\ filePath[t] = <<".", "/", "a">>

\* C7: every invocation writes "Attempting to play: <path>" first: its
\* first piece of output is that prefix, its first complete line is that
\* line, no other line of the invocation has that prefix, and every
\* filesystem or loader operation and every other output comes after the
\* line is complete; an invocation that has ended wrote exactly one.
C7_AttemptingLineFirst ==
    \A t \in Threads :
        LET ls == Lines(frags[t])
        IN /\ frags[t] # <<>> => frags[t][1] = AttemptingLit
           /\ Len(ls) >= 1 => ls[1] = AttemptingLine(t)
           /\ CountLines(ls, AttemptingLit) <= 1
           /\ ~ (Len(ls) >= 1 /\ HasPrefix(Partial(frags[t]), AttemptingLit))
           /\ (ops[t] # <<>> \/ Len(frags[t]) > 3) => Len(ls) >= 1
           /\ Ended(t) => CountLines(ls, AttemptingLit) = 1

\* An invocation ended having written its three lines, for a path that is
\* not in normal form.
C7_Witness ==
    \E t \in Threads :
        /\ Returned(t)
        /\ Len(Lines(frags[t])) = 3
        /\ filePath[t] = <<".", "/", "a">>

\* C8 (as stated): whatever the existence check, dlopen and dlsym do,
\* playAudio returns normally: no invocation ends with an exception
\* leaving the extern "C" frame.
C8_ReturnsNormally ==
    \A t \in Threads : pc[t] # "threw"

\* C9 (as stated): an invocation performs at most one dlopen and one
\* dlsym and writes at most one failure line; when it has ended, a missing
\* file, a failed dlopen and a failed dlsym are each reported by exactly
\* one line of their kind, and the success path wrote no failure line.
C9_EachFailureReportedOnce ==
    \A t \in Threads :
        LET ls == Lines(frags[t])
        IN /\ CountOp(ops[t], "dlopen") <= 1
           /\ CountOp(ops[t], "dlsym") <= 1
           /\ FailureLines(ls) <= 1
           /\ Ended(t) =>
                 /\ present[t] = "absent" =>
                       FailureLines(ls) = 1 /\ CountLines(ls, NotExistLit) = 1
                 /\ OpenFails(t) = 1 =>
                       FailureLines(ls) = 1 /\ CountLines(ls, LoadFailLit) = 1
                 /\ SymFails(t) = 1 =>
                       FailureLines(ls) = 1 /\ CountLines(ls, SymFailLit) = 1
                 /\ BackCalls(t) = 1 => FailureLines(ls) = 0

\* C10: with two invocations running concurrently under a loader that
\* counts references, the library is mapped (and exports the symbol)
\* whenever an invocation is inside the backing function, the loader's
\* count is exactly the number of invocations that hold an open handle of
\* their own (each opened at most once and closed what it opened), and it
\* is zero once every invocation is back in its caller.
C10_ConcurrentHandlesIndependent ==
    /\ \A t \in Threads :
          pc[t] = "L30in" => refcnt > 0 /\ image = "good"
    /\ refcnt = Cardinality({t \in Threads : Opens(t) = Closes(t) + 1})
    /\ \A t \in Threads :
          /\ Closes(t) <= Opens(t) /\ Opens(t) <= 1
          /\ (Returned(t) /\ BackCalls(t) = 1) => Opens(t) = 1 /\ Closes(t) = 1
    /\ (\A t \in Threads : InCaller(t)) => refcnt = 0

\* One invocation has closed its handle and returned while the other is
\* still inside the backing function.
C10_Witness ==
    \E t, u \in Threads :
        /\ t # u
        /\ Returned(t) /\ Opens(t) = 1 /\ Closes(t) = 1
        /\ pc[u] = "L30in"

\* C11: no state outlives an invocation.  Whenever every invocation is back
\* in its caller (after any number of completed invocations, whatever their
\* outcomes) the loader holds no reference for playAudio, no image is
\* mapped and no loader error is pending; and an invocation never works
\* with a handle or function pointer it did not obtain itself: before its
\* own dlopen it holds neither, a handle it holds comes from its own
\* successful dlopen, a function pointer from its own successful dlsym, and
\* every dlsym, backing call and dlclose follows a dlopen of the same
\* invocation; an invocation that passed validation and returned opened
\* exactly once.
C11_NoStatePersists ==
    /\ (\A t \in Threads : InCaller(t)) =>
          /\ refcnt = 0
          /\ image = "none"
          /\ \A t \in Threads : errbuf[t] = NoMsg
    /\ \A t \in Threads :
          /\ pc[t] \in {"L7a", "L7b", "L7c", "L10", "L11a", "L11b", "L13a",
                        "L13b", "L17"}
                => handle[t] = NULL /\ func[t] = NULL /\ LoaderOps(t) = 0
          /\ handle[t] # NULL => Opens(t) = 1
          /\ func[t] # NULL => SymOks(t) = 1 /\ Opens(t) = 1
          /\ \A i \in 1..Len(ops[t]) :
                ops[t][i].op \in {"dlsym", "call", "dlclose"} =>
                    \E j \in 1..(i - 1) :
                        ops[t][j].op = "dlopen" /\ ops[t][j].res = LibHandle
          /\ (Returned(t) /\ CountRes(ops[t], "exists", "true") = 1)
                => CountOp(ops[t], "dlopen") = 1

\* Both threads have completed an invocation whose symbol lookup failed,
\* and nothing is left open.
C11_Witness ==
    /\ \A t \in Threads : Returned(t) /\ SymFails(t) = 1 /\ Closes(t) = 1
    /\ refcnt = 0

\* The state of an invocation in the state machine
\* START -> VALIDATED -> HANDLE_OPEN -> SYMBOL_RESOLVED -> CALLED -> DONE.
Phase(t) ==
    CASE pc[t] \in {"L7a", "L7b", "L7c", "L10", "L13a", "L13b"} -> 0
      [] pc[t] \in {"L11a", "L11b", "L17", "L19a", "L19b", "L19c"} -> 1
      [] pc[t] \in {"L23", "L25a", "L25b", "L25c", "L26"} -> 2
      [] pc[t] = "L30" -> 3
      [] pc[t] \in {"L30in", "L31"} -> 4
      [] OTHER -> 5

\* The place of an operation in the order check, dlopen, dlsym, call, dlclose.
OpRank(o) ==
    CASE o = "exists" -> 1
      [] o = "dlopen" -> 2
      [] o = "dlsym" -> 3
      [] o = "call" -> 4
      [] o = "return" -> 5
      [] o = "dlclose" -> 6
      [] OTHER -> 0

\* C12: within one invocation the operations occur only in the order
\* existence check, dlopen, dlsym, backing call, dlclose, each at most
\* once; the state of the invocation is what its operations so far say
\* (VALIDATED: the check passed, nothing open; HANDLE_OPEN and later: its
\* handle is open; SYMBOL_RESOLVED and later: the symbol is resolved;
\* CALLED: the call was made); a step of an invocation stays in its state,
\* moves to the next one or goes to DONE, never back; and a step from
\* HANDLE_OPEN or later to DONE is a dlclose.
C12_LinearOrder ==
    /\ [](\A t \in Threads :
            /\ \A i, j \in 1..Len(ops[t]) :
                  i < j => OpRank(ops[t][i].op) < OpRank(ops[t][j].op)
            /\ ~ InCaller(t) =>
                  /\ Phase(t) >= 1 <=> CountRes(ops[t], "exists", "true") = 1
                  /\ Phase(t) >= 2 <=> Opens(t) = 1
                  /\ Phase(t) >= 3 <=> SymOks(t) = 1
                  /\ Phase(t) >= 4 <=> BackCalls(t) = 1
                  /\ Closes(t) = 0)
    /\ [][\A t \in Threads :
            ~ InCaller(t) =>
                /\ Phase(t)' \in {Phase(t), Phase(t) + 1, 5}
                /\ (Phase(t) >= 2 /\ Phase(t)' = 5) =>
                      /\ Closes(t)' = 1
                      /\ Closes(t) = 0]_vars

\* An invocation went through every state and is done.
C12_Witness ==
    \E t \in Threads :
        /\ Returned(t)
        /\ Len(ops[t]) >= 5
        /\ ops[t][1].op = "exists" /\ ops[t][2].op = "dlopen"
        /\ ops[t][3].op = "dlsym" /\ ops[t][4].op = "call"
        /\ ops[t][Len(ops[t])].op = "dlclose"

\* C13 (as stated): playAudio is synchronous and terminates.  On the
\* success path the handle is not released and the invocation does not
\* return before the backing function has returned; and, the backing
\* function returning, every invocation that is started eventually returns
\* to its caller holding no handle.
C13_SynchronousAndReturns ==
    /\ [](\A t \in Threads :
            /\ pc[t] = "L30in" => Closes(t) = 0
            /\ (BackCalls(t) = 1 /\ (Closes(t) = 1 \/ Returned(t))) =>
                  \E i, j \in 1..Len(ops[t]) :
                      /\ i < j
                      /\ ops[t][i].op = "return"
                      /\ ops[t][j].op = "dlclose"
                      /\ j = Len(ops[t]))
    /\ \A t \in Threads :
          (pc[t] = "L7a") ~> (Returned(t) /\ Opens(t) = Closes(t))

\* C14: the existence check is made once and is advisory.  An invocation
\* queries the filesystem at most once; once the check has reported that
\* the file exists, whatever happens to the file afterwards, the
\* invocation never writes "File does not exist", goes on to open the
\* library, and, the symbol resolved, calls the backing function once
\* with the original path.
C14_CheckedOnceAdvisory ==
    \A t \in Threads :
        /\ CountOp(ops[t], "exists") <= 1
        /\ CountRes(ops[t], "exists", "true") = 1 =>
              /\ present[t] = "present"
              /\ CountLines(Lines(frags[t]), NotExistLit) = 0
              /\ ~ HasPrefix(Partial(frags[t]), NotExistLit)
              /\ pc[t] \notin {"L13a", "L13b", "threw"}
              /\ pc[t] \notin {"L11a", "L11b", "L17"}
                    => CountOp(ops[t], "dlopen") = 1
              /\ (SymOks(t) = 1 /\ pc[t] # "L30") =>
                    /\ BackCalls(t) = 1
                    /\ \A i \in 1..Len(ops[t]) :
                          ops[t][i].op = "call" => ops[t][i].arg = filePath[t]

\* The check reported the file, the file has been removed since, and the
\* invocation is inside the backing function with the original path.
C14_Witness ==
    \E t \in Threads :
        /\ pc[t] = "L30in"
        /\ present[t] = "present"
        /\ Resolve(filePath[t]) \notin fs
        /\ ops[t][Len(ops[t])] = Op("call", PlaySym, filePath[t])

\* The text and the writers of the pieces of a line of the shared stream.
RECURSIVE LineText(_)
LineText(c) ==
    IF c = <<>> THEN <<>> ELSE c[1].s \o LineText(Tail(c))

Writers(c) == {c[i].w : i \in 1..Len(c)}

\* The diagnostic lines of an invocation for path p.
DiagnosticLines(p) ==
    {AttemptingLit \o p, ExistsLit, NotExistLit,
     LoadFailLit \o DlopenMsg, SymFailLit \o DlsymMsg}

IsPrefixOf(a, b) == Len(a) <= Len(b) /\ SubSeq(b, 1, Len(a)) = a

\* C15 (as stated): every line of the shared stream is one complete
\* diagnostic line of a single invocation: whenever an invocation ends a
\* line, all the pieces of that line were written by that invocation and
\* together they are one of its diagnostic lines.
C15_StreamLinesNotMixed ==
    [][\A t \in Threads :
          frags'[t] = Append(frags[t], NL) =>
              /\ Writers(cout) = {t}
              /\ LineText(cout) \in DiagnosticLines(filePath[t])]_vars

\* C15 (amended): the output of each invocation, taken by itself in the
\* order the invocation writes it, is a sequence of complete diagnostic
\* lines of that invocation: each of its lines is one of the listed forms,
\* what it has written of an unfinished line is the beginning of one, and
\* an invocation that has ended left no unfinished line.
C15_OwnLinesComplete ==
    \A t \in Threads :
        LET ls == Lines(frags[t])
        IN /\ \A i \in 1..Len(ls) : ls[i] \in DiagnosticLines(filePath[t])
           /\ \E d \in DiagnosticLines(filePath[t]) \cup {<<>>} :
                 IsPrefixOf(Partial(frags[t]), d)
           /\ Ended(t) => Partial(frags[t]) = <<>> /\ Len(ls) >= 1

\* Two invocations are writing at once: the unfinished line of the stream
\* holds pieces of both.
C15_Witness ==
    /\ Cardinality(Writers(cout)) = 2
    /\ \A t \in Threads : Partial(frags[t]) # <<>>

\* C16: at every point the dlclose calls of an invocation are at most its
\* successful dlopen calls, it holds at most one open handle, no dlclose
\* is ever passed a null handle, and after a failed dlopen no release is
\* made; so the loader's count is never below the handles held.
C16_ClosesBoundedByOpens ==
    /\ \A t \in Threads :
          /\ Closes(t) <= Opens(t)
          /\ Opens(t) <= Closes(t) + 1
          /\ \A i \in 1..Len(ops[t]) :
                ops[t][i].op = "dlclose" =>
                    /\ ops[t][i].res = LibHandle
                    /\ handle[t] = LibHandle
          /\ OpenFails(t) > 0 => Closes(t) = 0 /\ handle[t] = NULL
    /\ refcnt <= Cardinality(Threads)

\* One invocation returned from the load-failure path without any release
\* while the other has released the handle it opened.
C16_Witness ==
    \E t, u \in Threads :
        /\ Returned(t) /\ OpenFails(t) = 1 /\ Closes(t) = 0
        /\ Returned(u) /\ Opens(u) = 1 /\ Closes(u) = 1

=============================================================================
